---- MODULE Spec2Model ----
(***************************************************************************)
(* Model of tools/tx_spammer/tx_spammer.py: the start-up checks, the slot  *)
(* loop, spam_transactions (fee quote, nonce allocation, batch build) and  *)
(* the ThreadPoolExecutor that submits a batch.                            *)
(***************************************************************************)
EXTENDS Integers, Sequences, FiniteSets, TLC

\* ------------------------------------------------------------------ bounds
MaxCount == 3        \* largest --count
MaxBatchSize == 3    \* largest --batch-size
MaxPending == 2      \* largest pending transaction count the chain reports
MaxElapsed == 400    \* largest current_time - genesis_timestamp (SpecSlot)
MaxEstimate == 120   \* largest result of estimate_gas besides Estimates (SpecGas)

\* ------------------------------------------------------- program constants
FallbackGasLimit == 40000   \* gas_limit = 40000
SlotSeconds == 12           \* 12-second slot time
EpochSlots == 32            \* slots per epoch

None == -1

\* ------------------------------------------------------ environment values
Estimates == {21000, 21001}              \* results of eth_estimateGas
BaseFees == {7, 1000000000}              \* baseFeePerGas of the latest block
PriorityFees == {0, 100000000}           \* eth_maxPriorityFeePerGas
GenesisTimes == {0, 1606824023}          \* genesis_time of the beacon chain
SlotLists == {<< >>, <<0>>, <<5, 0>>}    \* --slots (main specification)
MainElapsed == {100}                     \* time.time() - genesis (main specification)

VARIABLES
    private_key,        \* os.getenv('PRIVATE_KEY') is set
    recipient,          \* os.getenv('RECIPIENT_ADDRESS') is set
    args,               \* parsed command line: slots, beacon_rpc, count, batch_size
    pc,                 \* position of the main thread
    error,              \* which exception ended the process ("none" while running)
    genesis_timestamp,
    slot_idx,           \* position of `for slot in args.slots`
    current_time,
    time_until_slot,
    batch_size,
    estimated_gas,
    gas_limit,
    sent_count,
    base_fee,
    priority_fee,
    max_fee_per_gas,
    batch_count,
    pending_nonce,
    signed_txs,
    max_workers,        \* ThreadPoolExecutor(max_workers=...)
    tasks,              \* live work items of the executors
    fut_i,              \* index of the comprehension / of enumerate(futures)
    net,                \* network activity so far: beacon requests, chain RPC calls, submissions
    batch_no,           \* index of the current batch within this call of spam_transactions
    gas_batch,          \* batch during which gas_limit was fetched
    est,                \* outcome of this call's estimate_gas: "none", "ok" or "failed"
    fee_batch,          \* batch during which base_fee / priority_fee were fetched
    nonce_reads,        \* get_transaction_count calls of the current batch
    built,              \* transaction requests constructed in this call of spam_transactions
    attempts,           \* send_raw_transaction calls of the current batch
    stats               \* calls of spam_transactions so far; inter-batch sleeps of this call;
                        \* net.sends when this call began; net.rpc when this batch began

config == <<private_key, recipient, args>>
sched == <<genesis_timestamp, slot_idx, current_time, time_until_slot>>
run == <<batch_size, estimated_gas, gas_limit, sent_count>>
fees == <<base_fee, priority_fee, max_fee_per_gas>>
batch == <<batch_count, pending_nonce, signed_txs>>
pool == <<max_workers, tasks, fut_i>>
ghost == <<net, batch_no, gas_batch, est, fee_batch, nonce_reads, built, attempts, stats>>
vars == <<config, pc, error, sched, run, fees, batch, pool, ghost>>

Min(a, b) == IF a < b THEN a ELSE b

\* a chain RPC call was made
Rpc(n) == [n EXCEPT !.rpc = @ + 1]

\* ----------------------------------------------------------------- start-up
Init ==
    /\ private_key \in BOOLEAN
    /\ recipient \in BOOLEAN
    /\ args \in [slots : SlotLists, beacon_rpc : BOOLEAN,
                 count : 0..MaxCount, batch_size : 1..MaxBatchSize]
    /\ pc = "env"
    /\ error = "none"
    /\ genesis_timestamp = None
    /\ slot_idx = 1
    /\ current_time = None
    /\ time_until_slot = None
    /\ batch_size = None
    /\ estimated_gas = None
    /\ gas_limit = None
    /\ sent_count = None
    /\ base_fee = None
    /\ priority_fee = None
    /\ max_fee_per_gas = None
    /\ batch_count = None
    /\ pending_nonce = None
    /\ signed_txs = << >>
    /\ max_workers = None
    /\ tasks = {}
    /\ fut_i = None
    /\ net = [beacon |-> 0, rpc |-> 0, sends |-> 0]
    /\ batch_no = 0
    /\ gas_batch = None
    /\ est = "none"
    /\ fee_batch = None
    /\ nonce_reads = 0
    /\ built = {}
    /\ attempts = 0
    /\ stats = [cycles |-> 0, sleeps |-> 0, sends0 |-> 0, rpc0 |-> 0]

\* an uncaught exception ends the process
Raise(kind) ==
    /\ pc' = "aborted"
    /\ error' = kind

\* lines 54-60: PRIVATE_KEY and RECIPIENT_ADDRESS must be set
CheckEnv ==
    /\ pc = "env"
    /\ IF private_key /\ recipient
         THEN pc' = "slots" /\ error' = error
         ELSE Raise("config")
    /\ UNCHANGED <<config, sched, run, fees, batch, pool, ghost>>

\* the beacon RPC URL not checked before the genesis request
CheckSlotsUnchecked ==
    /\ pc = "slots"
    /\ IF Len(args.slots) > 0
         THEN pc' = "genesis" /\ error' = error
         ELSE pc' = "connect" /\ error' = error
    /\ UNCHANGED <<config, sched, run, fees, batch, pool, ghost>>

\* lines 74-77: slots need a beacon RPC URL
CheckSlots ==
    /\ pc = "slots"
    /\ IF Len(args.slots) > 0
         THEN IF ~args.beacon_rpc
                THEN Raise("config")
                ELSE pc' = "genesis" /\ error' = error
         ELSE pc' = "connect" /\ error' = error
    /\ UNCHANGED <<config, sched, run, fees, batch, pool, ghost>>

\* lines 44-52, 79-83: GET /eth/v1/beacon/genesis
FetchGenesis ==
    /\ pc = "genesis"
    /\ net' = [net EXCEPT !.beacon = @ + 1]
    /\ \/ \E g \in GenesisTimes :
            /\ genesis_timestamp' = g
            /\ pc' = "connect"
            /\ error' = error
       \/ /\ Raise("genesis")
          /\ UNCHANGED genesis_timestamp
    /\ UNCHANGED <<config, slot_idx, current_time, time_until_slot, run, fees, batch, pool,
                   batch_no, gas_batch, est, stats, fee_batch, nonce_reads, built, attempts>>

\* lines 86-95: connect to the chain RPC
Connect ==
    /\ pc = "connect"
    /\ net' = Rpc(net)
    /\ \/ pc' = "main" /\ error' = error
       \/ Raise("connect")
    /\ UNCHANGED <<config, sched, run, fees, batch, pool,
                   batch_no, gas_batch, est, stats, fee_batch, nonce_reads, built, attempts>>

\* ---------------------------------------------------------------- slot loop
\* the seconds already spent in the current slot not subtracted
TimeUntilSlotWholeSlots(now, genesis, slot) ==
    LET current_slot == (now - genesis) \div SlotSeconds
        current_epoch_slot == current_slot % EpochSlots
        t == ((slot - current_epoch_slot) % EpochSlots) * SlotSeconds
    IN  IF t <= 0 THEN t + EpochSlots * SlotSeconds ELSE t

\* a wait of zero kept: a target slot starting right now is taken at once
TimeUntilSlotNow(now, genesis, slot) ==
    LET current_slot == (now - genesis) \div SlotSeconds
        current_epoch_slot == current_slot % EpochSlots
        time_since_epoch_start == (now - genesis) % (EpochSlots * SlotSeconds)
        t == ((slot - current_epoch_slot) % EpochSlots) * SlotSeconds
                 - (time_since_epoch_start % SlotSeconds)
    IN  IF t < 0 THEN t + EpochSlots * SlotSeconds ELSE t

\* lines 201-211: seconds until the next occurrence of `slot`
TimeUntilSlot(now, genesis, slot) ==
    LET current_slot == (now - genesis) \div SlotSeconds
        current_epoch_slot == current_slot % EpochSlots
        time_since_epoch_start == (now - genesis) % (EpochSlots * SlotSeconds)
        t == ((slot - current_epoch_slot) % EpochSlots) * SlotSeconds
                 - (time_since_epoch_start % SlotSeconds)
    IN  IF t <= 0 THEN t + EpochSlots * SlotSeconds ELSE t

\* lines 128-131: spam_transactions(count) is entered with a fresh frame
Enter ==
    /\ batch_size' = Min(args.batch_size, args.count)
    /\ estimated_gas' = None
    /\ gas_limit' = None
    /\ sent_count' = None
    /\ base_fee' = None
    /\ priority_fee' = None
    /\ max_fee_per_gas' = None
    /\ batch_count' = None
    /\ pending_nonce' = None
    /\ signed_txs' = << >>
    /\ batch_no' = 0
    /\ gas_batch' = None
    /\ est' = "none"
    /\ fee_batch' = None
    /\ nonce_reads' = 0
    /\ built' = {}
    /\ attempts' = 0
    /\ stats' = [cycles |-> stats.cycles + 1, sleeps |-> 0,
                 sends0 |-> net.sends, rpc0 |-> net.rpc]
    /\ pc' = "estimate"

\* lines 200-213: one iteration of `for slot in args.slots` up to the sleep;
\* Elapsed is the set of values time.time() - genesis_timestamp may take
SlotIter(Elapsed) ==
    /\ pc = "main"
    /\ Len(args.slots) > 0
    /\ slot_idx <= Len(args.slots)
    /\ \E e \in Elapsed :
          /\ current_time' = genesis_timestamp + e
          /\ time_until_slot' =
                 TimeUntilSlot(genesis_timestamp + e, genesis_timestamp, args.slots[slot_idx])
    /\ pc' = "slot_sleep"
    /\ UNCHANGED <<config, error, genesis_timestamp, slot_idx, run, fees, batch, pool, ghost>>

\* lines 214-217: time.sleep(time_until_slot), then spam_transactions(args.count)
SlotSleep ==
    /\ pc = "slot_sleep"
    /\ Enter
    /\ UNCHANGED <<config, error, sched, pool, net>>

\* lines 218-219: no slots, a single spam_transactions(args.count)
NoSlots ==
    /\ pc = "main"
    /\ Len(args.slots) = 0
    /\ Enter
    /\ UNCHANGED <<config, error, sched, pool, net>>

\* the slot loop left after its first target
FinishEarly ==
    /\ pc = "main"
    /\ Len(args.slots) > 0
    /\ slot_idx > 1
    /\ pc' = "done"
    /\ UNCHANGED <<config, error, sched, run, fees, batch, pool, ghost>>

\* line 200: args.slots is exhausted, the script ends
Finish ==
    /\ pc = "main"
    /\ Len(args.slots) > 0
    /\ slot_idx > Len(args.slots)
    /\ pc' = "done"
    /\ UNCHANGED <<config, error, sched, run, fees, batch, pool, ghost>>

\* --------------------------------------------------------- spam_transactions
\* the product rounded up to the next integer
GasWithBufferCeil(e) == (e * 12 + 9) \div 10

\* line 140: int(estimated_gas * 1.2): the float product, truncated by int().
\* The double nearest to 1.2 lies 0.2 * 2^-52 below it, and the product is
\* rounded to the nearest double before int() truncates it; for every e
\* below 2^50 that gives the integer part of the exact 12 * e / 10.
GasWithBuffer(e) == (e * 12) \div 10

\* the estimate made outside any try block: its failure ends the process
EstimateGasRaises(Results) ==
    /\ pc = "estimate"
    /\ net' = Rpc(net)
    /\ \/ \E e \in Results :
            /\ estimated_gas' = e
            /\ gas_limit' = GasWithBuffer(e)
            /\ est' = "ok"
            /\ sent_count' = 0
            /\ pc' = "while"
            /\ error' = error
       \/ /\ est' = "failed"
          /\ Raise("estimate")
          /\ UNCHANGED <<estimated_gas, gas_limit, sent_count>>
    /\ gas_batch' = batch_no
    /\ UNCHANGED <<config, sched, batch_size, fees, batch, pool,
                   batch_no, fee_batch, nonce_reads, built, attempts, stats>>

\* lines 133-145: gas estimate with fallback, then sent_count = 0; Results is
\* the set of values estimate_gas may return
EstimateGas(Results) ==
    /\ pc = "estimate"
    /\ net' = Rpc(net)
    /\ \/ \E e \in Results :
            /\ estimated_gas' = e
            /\ gas_limit' = GasWithBuffer(e)
            /\ est' = "ok"
       \/ /\ gas_limit' = FallbackGasLimit
          /\ est' = "failed"
          /\ UNCHANGED estimated_gas
    /\ gas_batch' = batch_no
    /\ sent_count' = 0
    /\ pc' = "while"
    /\ UNCHANGED <<config, error, sched, batch_size, fees, batch, pool,
                   batch_no, fee_batch, nonce_reads, built, attempts, stats>>

\* line 146: while sent_count < count; falling out of the loop returns
WhileTest ==
    /\ pc = "while"
    /\ IF sent_count < args.count
         THEN /\ pc' = "base_fee"
              /\ UNCHANGED slot_idx
         ELSE IF Len(args.slots) > 0
                THEN pc' = "main" /\ slot_idx' = slot_idx + 1
                ELSE pc' = "done" /\ UNCHANGED slot_idx
    /\ nonce_reads' = 0
    /\ attempts' = 0
    /\ stats' = [stats EXCEPT !.rpc0 = net.rpc]
    /\ UNCHANGED <<config, error, genesis_timestamp, current_time, time_until_slot,
                   run, fees, batch, pool,
                   net, batch_no, gas_batch, est, fee_batch, built>>

\* line 148: base_fee = w3.eth.get_block('latest')['baseFeePerGas']
GetBaseFee ==
    /\ pc = "base_fee"
    /\ net' = Rpc(net)
    /\ \/ \E b \in BaseFees :
            /\ base_fee' = b
            /\ fee_batch' = batch_no
            /\ pc' = "priority_fee"
            /\ error' = error
       \/ /\ Raise("rpc")
          /\ UNCHANGED <<base_fee, fee_batch>>
    /\ UNCHANGED <<config, sched, run, priority_fee, max_fee_per_gas, batch, pool,
                   batch_no, gas_batch, est, stats, nonce_reads, built, attempts>>

\* the base fee not doubled
MaxFeePerGasNoBuffer(b, p) == b + p

\* line 150
MaxFeePerGas(b, p) == b * 2 + p

\* lines 149-150: priority_fee = w3.eth.max_priority_fee, then max_fee_per_gas
GetPriorityFee ==
    /\ pc = "priority_fee"
    /\ net' = Rpc(net)
    /\ \/ \E p \in PriorityFees :
            /\ priority_fee' = p
            /\ max_fee_per_gas' = MaxFeePerGas(base_fee, p)
            /\ pc' = "nonce"
            /\ error' = error
       \/ /\ Raise("rpc")
          /\ UNCHANGED <<priority_fee, max_fee_per_gas>>
    /\ UNCHANGED <<config, sched, run, base_fee, batch, pool,
                   batch_no, gas_batch, est, stats, fee_batch, nonce_reads, built, attempts>>

\* every batch given the full size, whatever remains to be sent
BatchCountFull(size, count, sent) == size

\* line 153: min(batch_size, count - sent_count)
BatchCount(size, count, sent) == Min(size, count - sent)

\* lines 153-156: batch_count, signed_txs = [], pending_nonce
GetPendingNonce ==
    /\ pc = "nonce"
    /\ batch_count' = BatchCount(batch_size, args.count, sent_count)
    /\ signed_txs' = << >>
    /\ net' = Rpc(net)
    /\ nonce_reads' = nonce_reads + 1
    /\ \/ \E n \in 0..MaxPending :
            /\ pending_nonce' = n
            /\ pc' = "build"
            /\ error' = error
       \/ /\ Raise("rpc")
          /\ UNCHANGED pending_nonce
    /\ UNCHANGED <<config, sched, run, fees, pool,
                   batch_no, gas_batch, est, stats, fee_batch, built, attempts>>

\* the loop index left out of the nonce
TxNonceFixed(pn, i) == pn

\* line 159
TxNonce(pn, i) == pn + i

\* each transaction handed to the executor as soon as it is signed
BuildTxEager ==
    /\ pc = "build"
    /\ Len(signed_txs) < batch_count
    /\ net' = Rpc(net)
    /\ \/ LET i == Len(signed_txs)
              tx == [nonce |-> TxNonce(pending_nonce, i),
                     gas |-> gas_limit,
                     maxFeePerGas |-> max_fee_per_gas,
                     maxPriorityFeePerGas |-> priority_fee]
          IN  /\ signed_txs' = Append(signed_txs, tx)
              /\ built' = built \cup {[batch |-> batch_no, i |-> i, nonce |-> tx.nonce,
                                        pending |-> pending_nonce]}
              /\ tasks' = tasks \cup {[batch |-> batch_no, i |-> i, st |-> "queued"]}
              /\ max_workers' = batch_count
              /\ pc' = IF i + 1 < batch_count THEN "build" ELSE "pool"
              /\ error' = error
       \/ /\ Raise("rpc")
          /\ UNCHANGED <<signed_txs, built, tasks, max_workers>>
    /\ UNCHANGED <<config, sched, run, fees, batch_count, pending_nonce, fut_i,
                   batch_no, gas_batch, est, stats, fee_batch, nonce_reads, attempts>>

\* lines 158-171: one iteration of `for i in range(batch_count)`: the request
\* is filled in (w3.eth.chain_id is an RPC call), signed and appended
BuildTx ==
    /\ pc = "build"
    /\ Len(signed_txs) < batch_count
    /\ net' = Rpc(net)
    /\ \/ LET i == Len(signed_txs)
              tx == [nonce |-> TxNonce(pending_nonce, i),
                     gas |-> gas_limit,
                     maxFeePerGas |-> max_fee_per_gas,
                     maxPriorityFeePerGas |-> priority_fee]
          IN  /\ signed_txs' = Append(signed_txs, tx)
              /\ built' = built \cup {[batch |-> batch_no, i |-> i, nonce |-> tx.nonce,
                                        pending |-> pending_nonce]}
              /\ pc' = IF i + 1 < batch_count THEN "build" ELSE "pool"
              /\ error' = error
       \/ /\ Raise("rpc")
          /\ UNCHANGED <<signed_txs, built>>
    /\ UNCHANGED <<config, sched, run, fees, batch_count, pending_nonce, pool,
                   batch_no, gas_batch, est, stats, fee_batch, nonce_reads, attempts>>

\* ------------------------------------------------------------- the executor
\* a future taken for done as soon as a worker has picked it up
IsDoneOrRunning(st) == st \in {"running", "ok", "fail"}

\* a future is done once its call returned or raised
IsDone(st) == st \in {"ok", "fail"}

Running(b) == {t \in tasks : t.batch = b /\ t.st = "running"}

\* a pool with a single worker thread
OpenPoolOneWorker ==
    /\ pc = "pool"
    /\ max_workers' = 1
    /\ tasks' = {t \in tasks : t.st \in {"queued", "running"}}
    /\ fut_i' = 0
    /\ pc' = "submit"
    /\ UNCHANGED <<config, error, sched, run, fees, batch, ghost>>

\* line 174: ThreadPoolExecutor(max_workers=batch_count)
OpenPool ==
    /\ pc = "pool"
    /\ max_workers' = batch_count
    /\ tasks' = {t \in tasks : t.st \in {"queued", "running"}}
    /\ fut_i' = 0
    /\ pc' = "submit"
    /\ UNCHANGED <<config, error, sched, run, fees, batch, ghost>>

\* line 183: executor.submit(send_raw_tx, signed_tx) for the next signed_tx
Submit ==
    /\ pc = "submit"
    /\ fut_i < Len(signed_txs)
    /\ tasks' = tasks \cup {[batch |-> batch_no, i |-> fut_i, st |-> "queued"]}
    /\ IF fut_i + 1 < Len(signed_txs)
         THEN fut_i' = fut_i + 1 /\ pc' = "submit"
         ELSE fut_i' = 0 /\ pc' = "collect"
    /\ UNCHANGED <<config, error, sched, run, fees, batch, max_workers, ghost>>

\* lines 175-177: a free worker thread takes the work item and calls
\* w3.eth.send_raw_transaction
WorkerSend(t) ==
    /\ t \in tasks
    /\ t.st = "queued"
    /\ Cardinality(Running(t.batch)) < max_workers
    /\ tasks' = (tasks \ {t}) \cup {[t EXCEPT !.st = "running"]}
    /\ net' = [net EXCEPT !.sends = @ + 1]
    /\ attempts' = attempts + 1
    /\ UNCHANGED <<config, pc, error, sched, run, fees, batch, max_workers, fut_i,
                   batch_no, gas_batch, est, stats, fee_batch, nonce_reads, built>>

\* the exception of a failed send_raw_transaction not caught: it ends the run
WorkerResolveRaises(t) ==
    /\ t \in tasks
    /\ t.st = "running"
    /\ \/ /\ tasks' = (tasks \ {t}) \cup {[t EXCEPT !.st = "ok"]}
          /\ UNCHANGED <<pc, error>>
       \/ /\ tasks' = (tasks \ {t}) \cup {[t EXCEPT !.st = "fail"]}
          /\ Raise("send")
    /\ UNCHANGED <<config, sched, run, fees, batch, max_workers, fut_i, ghost>>

\* a failed submission put back on the queue to be tried again
WorkerResolveRetry(t) ==
    /\ t \in tasks
    /\ t.st = "running"
    /\ \E outcome \in {"ok", "queued"} :
          tasks' = (tasks \ {t}) \cup {[t EXCEPT !.st = outcome]}
    /\ UNCHANGED <<config, pc, error, sched, run, fees, batch, max_workers, fut_i, ghost>>

\* lines 177-181: the call returns the hash, or its exception is caught and
\* None is returned
WorkerResolve(t) ==
    /\ t \in tasks
    /\ t.st = "running"
    /\ \E outcome \in {"ok", "fail"} :
          tasks' = (tasks \ {t}) \cup {[t EXCEPT !.st = outcome]}
    /\ UNCHANGED <<config, pc, error, sched, run, fees, batch, max_workers, fut_i, ghost>>

\* lines 185-189: future.result() of the next future blocks until it is done
Collect ==
    /\ pc = "collect"
    /\ fut_i < Len(signed_txs)
    /\ \E t \in tasks : t.batch = batch_no /\ t.i = fut_i /\ IsDone(t.st)
    /\ IF fut_i + 1 < Len(signed_txs)
         THEN fut_i' = fut_i + 1 /\ pc' = "collect"
         ELSE fut_i' = fut_i + 1 /\ pc' = "shutdown"
    /\ UNCHANGED <<config, error, sched, run, fees, batch, max_workers, tasks, ghost>>

\* line 174 (end of the with block): executor.shutdown(wait=True)
Shutdown ==
    /\ pc = "shutdown"
    /\ \A t \in tasks : t.batch = batch_no => IsDone(t.st)
    /\ pc' = "advance"
    /\ UNCHANGED <<config, error, sched, run, fees, batch, pool, ghost>>

\* sent_count left as it was
AdvanceNoCount ==
    /\ pc = "advance"
    /\ sent_count' = sent_count
    /\ batch_no' = batch_no + 1
    /\ pc' = IF sent_count' < args.count THEN "batch_sleep" ELSE "while"
    /\ UNCHANGED <<config, error, sched, batch_size, estimated_gas, gas_limit, fees, batch, pool,
                   net, gas_batch, est, stats, fee_batch, nonce_reads, built, attempts>>

\* the sleep taken after every batch, the last one included
AdvanceAlwaysSleep ==
    /\ pc = "advance"
    /\ sent_count' = sent_count + batch_count
    /\ batch_no' = batch_no + 1
    /\ pc' = "batch_sleep"
    /\ UNCHANGED <<config, error, sched, batch_size, estimated_gas, gas_limit, fees, batch, pool,
                   net, gas_batch, est, stats, fee_batch, nonce_reads, built, attempts>>

\* lines 191-195: sent_count += batch_count; more to send?
Advance ==
    /\ pc = "advance"
    /\ sent_count' = sent_count + batch_count
    /\ batch_no' = batch_no + 1
    /\ pc' = IF sent_count' < args.count THEN "batch_sleep" ELSE "while"
    /\ UNCHANGED <<config, error, sched, batch_size, estimated_gas, gas_limit, fees, batch, pool,
                   net, gas_batch, est, stats, fee_batch, nonce_reads, built, attempts>>

\* line 196: time.sleep(args.sleep)
BatchSleep ==
    /\ pc = "batch_sleep"
    /\ pc' = "while"
    /\ stats' = [stats EXCEPT !.sleeps = @ + 1]
    /\ UNCHANGED <<config, error, sched, run, fees, batch, pool,
                   net, batch_no, gas_batch, est, fee_batch, nonce_reads, built, attempts>>

\* ------------------------------------------------------------ specifications
Next ==
    \/ CheckEnv
    \/ CheckSlots
    \/ FetchGenesis
    \/ Connect
    \/ SlotIter(MainElapsed)
    \/ SlotSleep
    \/ NoSlots
    \/ Finish
    \/ EstimateGas(Estimates)
    \/ WhileTest
    \/ GetBaseFee
    \/ GetPriorityFee
    \/ GetPendingNonce
    \/ BuildTx
    \/ OpenPool
    \/ Submit
    \/ \E t \in tasks : WorkerSend(t)
    \/ \E t \in tasks : WorkerResolve(t)
    \/ Collect
    \/ Shutdown
    \/ Advance
    \/ BatchSleep

Spec == Init /\ [][Next]_vars

\* The process keeps running: while a step of the main thread or of a worker
\* is possible (every call eventually returns or fails, every sleep ends),
\* one is eventually taken.
SpecFair == Init /\ [][Next]_vars /\ WF_vars(Next)

\* The slot loop alone: the script has started with one slot target and is
\* about to compute its wait; every current time within MaxElapsed seconds
\* of genesis and every slot 0..31.
SlotInit ==
    /\ private_key = TRUE
    /\ recipient = TRUE
    /\ \E s \in 0..(EpochSlots - 1) :
          args = [slots |-> <<s>>, beacon_rpc |-> TRUE, count |-> 1, batch_size |-> 1]
    /\ pc = "main"
    /\ error = "none"
    /\ genesis_timestamp \in GenesisTimes
    /\ slot_idx = 1
    /\ current_time = None
    /\ time_until_slot = None
    /\ batch_size = None
    /\ estimated_gas = None
    /\ gas_limit = None
    /\ sent_count = None
    /\ base_fee = None
    /\ priority_fee = None
    /\ max_fee_per_gas = None
    /\ batch_count = None
    /\ pending_nonce = None
    /\ signed_txs = << >>
    /\ max_workers = None
    /\ tasks = {}
    /\ fut_i = None
    /\ net = [beacon |-> 1, rpc |-> 1, sends |-> 0]
    /\ batch_no = 0
    /\ gas_batch = None
    /\ est = "none"
    /\ fee_batch = None
    /\ nonce_reads = 0
    /\ built = {}
    /\ attempts = 0
    /\ stats = [cycles |-> 0, sleeps |-> 0, sends0 |-> 0, rpc0 |-> 0]

SlotNext ==
    \/ SlotIter(0..MaxElapsed)
    \/ SlotSleep

SpecSlot == SlotInit /\ [][SlotNext]_vars

\* The gas estimate alone: spam_transactions(1) has been entered and
\* estimate_gas may return any value up to MaxEstimate, or one of Estimates.
GasInit ==
    /\ private_key = TRUE
    /\ recipient = TRUE
    /\ args = [slots |-> << >>, beacon_rpc |-> FALSE, count |-> 1, batch_size |-> 1]
    /\ pc = "estimate"
    /\ error = "none"
    /\ genesis_timestamp = None
    /\ slot_idx = 1
    /\ current_time = None
    /\ time_until_slot = None
    /\ batch_size = 1
    /\ estimated_gas = None
    /\ gas_limit = None
    /\ sent_count = None
    /\ base_fee = None
    /\ priority_fee = None
    /\ max_fee_per_gas = None
    /\ batch_count = None
    /\ pending_nonce = None
    /\ signed_txs = << >>
    /\ max_workers = None
    /\ tasks = {}
    /\ fut_i = None
    /\ net = [beacon |-> 0, rpc |-> 1, sends |-> 0]
    /\ batch_no = 0
    /\ gas_batch = None
    /\ est = "none"
    /\ fee_batch = None
    /\ nonce_reads = 0
    /\ built = {}
    /\ attempts = 0
    /\ stats = [cycles |-> 1, sleeps |-> 0, sends0 |-> 0, rpc0 |-> 1]

GasNext == EstimateGas(0..MaxEstimate \cup Estimates)

SpecGas == GasInit /\ [][GasNext]_vars

TypeOK ==
    /\ pc \in {"env", "slots", "genesis", "connect", "main", "slot_sleep", "estimate",
               "while", "base_fee", "priority_fee", "nonce", "build", "pool", "submit",
               "collect", "shutdown", "advance", "batch_sleep", "done", "aborted"}
    /\ error \in {"none", "config", "genesis", "connect", "rpc"}
    /\ est \in {"none", "ok", "failed"}
    /\ (pc = "aborted") <=> (error # "none")

\* ------------------------------------------------------------------ claims
\* positions of the main thread between the pending-count read of a batch and
\* the update of sent_count
Building == {"build"}
Dispatching == {"pool", "submit", "collect", "shutdown", "advance"}

Live == {t \in tasks : t.st \in {"queued", "running"}}
Resolved(b) == {t \in tasks : t.batch = b /\ t.st \in {"ok", "fail"}}

\* C1: in every batch the pending transaction count is read exactly once and
\* the transactions built so far carry pending_nonce, pending_nonce + 1, ...
\* in construction order; once the build loop is over there are exactly
\* batch_count >= 1 of them, pairwise distinct.
C1_NonceRun ==
    pc \in Building \cup Dispatching =>
        /\ nonce_reads = 1
        /\ batch_count >= 1
        /\ Len(signed_txs) <= batch_count
        /\ pc \in Dispatching => Len(signed_txs) = batch_count
        /\ \A k \in 1..Len(signed_txs) : signed_txs[k].nonce = pending_nonce + (k - 1)
        /\ \A j, k \in 1..Len(signed_txs) :
              j # k => signed_txs[j].nonce # signed_txs[k].nonce

C1_Witness ==
    /\ pc = "pool"
    /\ batch_count = 3
    /\ pending_nonce = 2
    /\ [k \in 1..3 |-> signed_txs[k].nonce] = <<2, 3, 4>>

\* C2: whatever subset of the submissions fails, when the dispatcher is left
\* send_raw_transaction has been called once for each of the batch_count
\* transactions and each has an outcome; and a submitted transaction never
\* has to wait for a sibling: a queued work item can always be taken by a
\* worker at once.
C2_AllAttempted ==
    /\ pc = "advance" =>
          /\ attempts = batch_count
          /\ Cardinality(Resolved(batch_no)) = batch_count
    /\ \A t \in tasks : t.st = "queued" => ENABLED WorkerSend(t)

C2_Witness ==
    /\ pc = "advance"
    /\ batch_count = 3
    /\ \E t \in tasks : t.batch = batch_no /\ t.i = 0 /\ t.st = "fail"
    /\ \E t \in tasks : t.batch = batch_no /\ t.i = 1 /\ t.st = "ok"
    /\ \E t \in tasks : t.batch = batch_no /\ t.i = 2 /\ t.st = "ok"

\* C3 as stated: no two transaction requests constructed in one call of
\* spam_transactions carry the same nonce.
C3_UniqueInRun ==
    \A a, b \in built : a.nonce = b.nonce => a = b

\* C3 amended: two requests of one batch never carry the same nonce, and two
\* requests of different batches carry the same nonce only if the pending
\* count read for the later batch did not exceed that nonce (the chain's
\* pending view did not include the earlier transaction).
C3_UniqueUnlessLagging ==
    \A a, b \in built :
        (a # b /\ a.nonce = b.nonce) =>
            /\ a.batch # b.batch
            /\ a.batch < b.batch => b.pending <= a.nonce

C3_Witness ==
    /\ pc = "pool"
    /\ \E a, b \in built : a.batch < b.batch /\ a.nonce = b.nonce /\ b.pending <= a.nonce
    /\ \E a, b \in built : a.batch = b.batch /\ a.nonce # b.nonce

\* C4 as stated: the transactions of every batch carry a quote fetched for
\* that batch: the gas limit, the base fee and the priority fee in use while
\* batch batch_no is built and dispatched were all fetched during batch_no.
C4_FreshQuote ==
    (pc \in Building \cup Dispatching /\ Len(signed_txs) > 0) =>
        /\ \A k \in 1..Len(signed_txs) : signed_txs[k].gas = gas_limit
        /\ gas_batch = batch_no
        /\ fee_batch = batch_no

\* C5: every transaction of a batch carries maxPriorityFeePerGas = p and
\* maxFeePerGas = 2*b + p, b and p being the base fee and priority fee read
\* at the start of that batch.
C5_FeeFormula ==
    pc \in Building \cup Dispatching =>
        /\ fee_batch = batch_no
        /\ base_fee \in BaseFees
        /\ priority_fee \in PriorityFees
        /\ \A k \in 1..Len(signed_txs) :
              /\ signed_txs[k].maxPriorityFeePerGas = priority_fee
              /\ signed_txs[k].maxFeePerGas = 2 * base_fee + priority_fee

C5_Witness ==
    /\ pc = "pool"
    /\ Len(signed_txs) = 3
    /\ base_fee = 1000000000
    /\ priority_fee = 100000000
    /\ \A k \in 1..3 : signed_txs[k].maxFeePerGas = 2100000000

\* C6: when estimate_gas fails the gas limit is 40000, no exception leaves the
\* estimation step, and every transaction built afterwards carries 40000.
C6_Fallback ==
    /\ error # "estimate"
    /\ est = "failed" =>
          /\ pc # "estimate"
          /\ gas_limit = FallbackGasLimit
          /\ pc \in Building \cup Dispatching =>
                \A k \in 1..Len(signed_txs) : signed_txs[k].gas = FallbackGasLimit

C6_Witness ==
    /\ est = "failed"
    /\ pc = "advance"
    /\ batch_no = 1
    /\ attempts = batch_count
    /\ \A k \in 1..Len(signed_txs) : signed_txs[k].gas = 40000

\* C7: for every genesis time, every current time at or after it and every
\* target slot 0..31 the computed wait is non-negative and ends exactly on the
\* start of a slot whose index within its epoch is the target; at genesis + 100
\* with target 5 it is 344.
C7_SlotWait ==
    pc = "slot_sleep" =>
        LET slot == args.slots[slot_idx]
            landing == current_time + time_until_slot - genesis_timestamp
        IN  /\ current_time >= genesis_timestamp
            /\ time_until_slot >= 0
            /\ landing % 12 = 0
            /\ (landing \div 12) % 32 = slot
            /\ (current_time = genesis_timestamp + 100 /\ slot = 5) => time_until_slot = 344

C7_Witness ==
    /\ pc = "slot_sleep"
    /\ args.slots[slot_idx] = 5
    /\ current_time = genesis_timestamp + 100
    /\ time_until_slot = 344

\* C8: with PRIVATE_KEY or RECIPIENT_ADDRESS missing, or slots given without a
\* beacon RPC URL, the run ends in a configuration error and never makes a
\* beacon request, a chain RPC call or a submission.
FatalConfig ==
    \/ ~private_key
    \/ ~recipient
    \/ (Len(args.slots) > 0 /\ ~args.beacon_rpc)

C8_ConfigAbort ==
    /\ FatalConfig =>
          /\ net = [beacon |-> 0, rpc |-> 0, sends |-> 0]
          /\ pc \in {"env", "slots", "aborted"}
          /\ pc = "aborted" => error = "config"
    /\ error = "config" => FatalConfig

C8_Witness ==
    /\ private_key
    /\ recipient
    /\ args.slots = <<0>>
    /\ ~args.beacon_rpc
    /\ pc = "aborted"
    /\ error = "config"
    /\ net = [beacon |-> 0, rpc |-> 0, sends |-> 0]

\* C9: no submission of a batch exists, queued or sent, before the pending
\* count has been read and all batch_count transactions of the batch have been
\* given their nonce and signed; and a run that ends while a batch is being
\* constructed has submitted none of that batch's transactions.
C9_BuildBeforeDispatch ==
    /\ pc \in {"base_fee", "priority_fee", "nonce", "build", "pool"} =>
          /\ attempts = 0
          /\ Live = {}
    /\ (attempts > 0 \/ Live # {}) =>
          /\ nonce_reads = 1
          /\ Len(signed_txs) = batch_count
          /\ \A k \in 1..batch_count : signed_txs[k].nonce = pending_nonce + (k - 1)
    /\ error = "rpc" =>
          /\ attempts = 0
          /\ Live = {}

C9_Witness ==
    /\ pc = "aborted"
    /\ error = "rpc"
    /\ batch_count = 3
    /\ Len(signed_txs) = 2
    /\ attempts = 0
    /\ net.sends = 0

\* C10: whenever the main thread is outside the dispatcher (sent_count being
\* advanced, the inter-batch sleep, the next batch, the end of the run) no
\* submission is queued or in flight; submissions in flight always belong to
\* one batch, the current one, and there are at most batch_count of them.
C10_JoinBeforeReturn ==
    /\ pc \notin {"submit", "collect", "shutdown"} => Live = {}
    /\ \A t \in Live : t.batch = batch_no
    /\ Live # {} => Cardinality({t \in tasks : t.st = "running"}) <= batch_count
    /\ pc = "advance" => Cardinality(Resolved(batch_no)) = batch_count

C10_Witness ==
    /\ pc = "advance"
    /\ batch_no = 1
    /\ sent_count = 2
    /\ batch_count = 1
    /\ Cardinality(Resolved(batch_no)) = 1
    /\ Live = {}

\* C11 as stated: no failure of a fee-estimation RPC (estimate_gas, the base
\* fee read, the priority fee read) and no failure of a submission ends the run.
C11_NeverAborts ==
    [][(pc \in {"estimate", "base_fee", "priority_fee"} \/ Live # {})
          => pc' # "aborted"]_vars

\* C11 amended: a failure of estimate_gas or of a send_raw_transaction never
\* ends the run (the step leaves the main thread running, and a failed
\* submission is recorded on its own work item only); a failure of the base
\* fee read or of the priority fee read is not caught: it ends the run with
\* nothing of that batch built or submitted.
C11_CaughtAtOrigin ==
    [][/\ (pc = "estimate" \/ Live # {}) => (pc' # "aborted" /\ error' = "none")
       /\ (\E t \in tasks : t.st = "running" /\ [t EXCEPT !.st = "fail"] \in tasks')
             => (pc' = pc /\ Cardinality(tasks') = Cardinality(tasks))
       /\ (pc \in {"base_fee", "priority_fee"} /\ pc' = "aborted")
             => (error' = "rpc" /\ nonce_reads' = 0 /\ attempts' = 0 /\ Live = {})]_vars

C11_Witness ==
    /\ pc = "done"
    /\ est = "failed"
    /\ sent_count = 3
    /\ batch_no = 3
    /\ \E t \in tasks : t.st = "fail"

\* C12: the size of every batch is min(configured batch size, count -
\* sent_count) when it is built; it is never 0 and never above the configured
\* size; every batch before the current one had the full size min(configured
\* size, count), so only the last can be smaller; and the sizes of the
\* batches of a completed call add up to count.
C12_BatchSizes ==
    /\ pc \in Building \cup Dispatching =>
          /\ args.count >= 1
          /\ batch_count = Min(args.batch_size, args.count - sent_count)
          /\ batch_count >= 1
          /\ batch_count <= args.batch_size
          /\ sent_count = batch_no * Min(args.batch_size, args.count)
          /\ batch_count < Min(args.batch_size, args.count)
                => sent_count + batch_count = args.count
          /\ \A k \in 0..(batch_no - 1) :
                Cardinality({r \in built : r.batch = k}) = Min(args.batch_size, args.count)
          /\ pc \in Dispatching =>
                Cardinality({r \in built : r.batch = batch_no}) = batch_count
    /\ (pc = "done" \/ (pc = "main" /\ slot_idx > 1)) =>
          /\ sent_count = args.count
          /\ Cardinality(built) = args.count

C12_Witness ==
    /\ pc = "advance"
    /\ args.count = 3
    /\ args.batch_size = 2
    /\ batch_no = 1
    /\ sent_count = 2
    /\ batch_count = 1
    /\ Cardinality(built) = 3

\* positions of the main thread inside spam_transactions
InCall == {"estimate", "while", "base_fee", "priority_fee", "nonce", "build", "pool",
           "submit", "collect", "shutdown", "advance", "batch_sleep"}

\* C13: with slot targets the scheduler takes them in the given order: the
\* wait it sleeps is the one computed for target number slot_idx, the call of
\* spam_transactions that follows is call number slot_idx, the wait for the
\* next target is computed only when that call has sent all count
\* transactions, and the run ends after exactly Len(args.slots) calls; with no
\* slot target it ends after exactly one call of count transactions.
C13_SlotCycles ==
    /\ Len(args.slots) > 0 =>
          /\ pc = "main" =>
                /\ stats.cycles = slot_idx - 1
                /\ slot_idx > 1 => (sent_count = args.count /\ Live = {})
          /\ pc = "slot_sleep" =>
                /\ stats.cycles = slot_idx - 1
                /\ slot_idx <= Len(args.slots)
                /\ ((current_time + time_until_slot - genesis_timestamp) \div 12) % 32
                      = args.slots[slot_idx]
          /\ pc \in InCall =>
                /\ stats.cycles = slot_idx
                /\ slot_idx <= Len(args.slots)
          /\ pc = "done" =>
                /\ stats.cycles = Len(args.slots)
                /\ slot_idx = Len(args.slots) + 1
    /\ Len(args.slots) = 0 =>
          /\ pc \in {"main", "env", "slots", "connect"} => stats.cycles = 0
          /\ pc \in InCall \cup {"done"} => stats.cycles = 1
          /\ pc \notin {"slot_sleep", "genesis"}
    /\ pc = "done" => (sent_count = args.count /\ Cardinality(built) = args.count)

C13_Witness ==
    /\ pc = "done"
    /\ args.slots = <<5, 0>>
    /\ args.count = 3
    /\ stats.cycles = 2
    /\ sent_count = 3

C15_RoundedUp ==
    est = "ok" =>
        /\ 10 * gas_limit >= 12 * estimated_gas
        /\ 10 * gas_limit < 12 * estimated_gas + 10

\* C15 amended: after a successful estimate the gas limit is 1.2 times the
\* estimate rounded down, floor(12 * e / 10).
C15_RoundedDown ==
    est = "ok" =>
        /\ 10 * gas_limit <= 12 * estimated_gas
        /\ 10 * gas_limit > 12 * estimated_gas - 10

C15_Witness ==
    /\ est = "ok"
    /\ pc = "while"
    /\ estimated_gas = 21001
    /\ gas_limit = 25201

\* the call of spam_transactions has returned
Returned == pc = "done" \/ (pc = "main" /\ slot_idx > 1)

C17_EndsWithAllSent ==
    (Returned \/ (pc = "aborted" /\ stats.cycles >= 1)) => sent_count = args.count

\* C17 amended: every call of spam_transactions ends, by returning or by the
\* exception of a failed RPC call; throughout 0 <= sent_count <= count, every
\* batch strictly increases sent_count, and when the call returns sent_count =
\* count (with count = 0 nothing is built or submitted). A call ended by an
\* exception ends with sent_count < count.
C17_Terminates ==
    /\ [](pc \in (InCall \ {"estimate"}) => (0 <= sent_count /\ sent_count <= args.count))
    /\ [](Returned => sent_count = args.count)
    /\ []((pc = "aborted" /\ stats.cycles >= 1) => sent_count < args.count)
    /\ []((args.count = 0 /\ stats.cycles >= 1) =>
             (built = {} /\ net.sends = 0 /\ tasks = {} /\ batch_no = 0))
    /\ [][pc = "advance" => sent_count' > sent_count]_vars
    /\ (pc \in InCall) ~> (Returned \/ pc = "aborted")

C17_Witness ==
    /\ pc = "done"
    /\ args.count = 3
    /\ args.batch_size = 2
    /\ sent_count = 3
    /\ batch_no = 2

\* C18: a failed submission is never retried and never re-counted: a finished
\* future never changes, every send_raw_transaction call takes a work item
\* not yet attempted, sent_count advances by the full batch size whatever the
\* outcomes, every batch has made exactly one attempt per signed transaction
\* when it is counted, and a call that returns has made exactly count attempts,
\* even if all of them failed.
C18_OneAttemptEach ==
    /\ [](Returned => net.sends - stats.sends0 = args.count)
    /\ [](pc = "advance" =>
             /\ attempts = Len(signed_txs)
             /\ Cardinality(Resolved(batch_no)) = Len(signed_txs)
             /\ Len(signed_txs) = batch_count)
    /\ [][pc = "advance" => sent_count' = sent_count + batch_count]_vars
    /\ [][\A t \in tasks : IsDone(t.st) =>
             \A u \in tasks' : (u.batch = t.batch /\ u.i = t.i) => u = t]_vars
    /\ [][net'.sends # net.sends =>
             /\ net'.sends = net.sends + 1
             /\ \E t \in tasks : /\ t.st = "queued"
                                 /\ tasks' = (tasks \ {t}) \cup {[t EXCEPT !.st = "running"]}]_vars

C18_Witness ==
    /\ pc = "done"
    /\ args.count = 3
    /\ sent_count = 3
    /\ net.sends = 3
    /\ Cardinality(tasks) = 3
    /\ \A t \in tasks : t.st = "fail"

\* C19: the wait slept before a slot target is at least 1 and at most 384
\* seconds for every current time at or after genesis and every target slot
\* 0..31; when the current time lies in the target slot, its first second
\* included, the wait is 384 minus the seconds already elapsed in that slot,
\* which ends on the slot's occurrence in the next epoch.
C19_WaitPositive ==
    pc = "slot_sleep" =>
        LET slot == args.slots[slot_idx]
            elapsed == current_time - genesis_timestamp
            in_slot == elapsed % 12
        IN  /\ elapsed >= 0
            /\ 1 <= time_until_slot
            /\ time_until_slot <= 384
            /\ ((elapsed \div 12) % 32 = slot) =>
                  /\ time_until_slot = 384 - in_slot
                  /\ ((elapsed + time_until_slot) \div 12) = (elapsed \div 12) + 32

C19_Witness ==
    /\ pc = "slot_sleep"
    /\ args.slots[slot_idx] = 5
    /\ current_time = genesis_timestamp + 60
    /\ time_until_slot = 384

====
